---- MODULE Spec2Model ----
(***************************************************************************)
(* A model of src/app.py: the price parser parse_price and the discount    *)
(* scan of get_recent_discounts (the /games/most-price-drops endpoint).    *)
(*                                                                         *)
(* Text that the code inspects character by character (price strings) is   *)
(* a sequence of one-character strings.  Identifiers that the code only    *)
(* concatenates and compares (game ids, edition names, dictionary keys)    *)
(* are strings.  Times are whole hours.  A float is an exact decimal       *)
(* m / 10^k; within the lengths used here every such decimal survives the  *)
(* round trip through a Python float and its repr unchanged.  The          *)
(* subtraction of two prices is exact in the model (the float result can   *)
(* differ from it by a rounding error in the last place).                  *)
(* The clock is read once per request: the reads of lines 103 and 140 fall *)
(* in the same hour.                                                       *)
(***************************************************************************)
EXTENDS Integers, Sequences, FiniteSets, TLC

VARIABLES
    collection,          \* the documents of price_history_collection
    now,                 \* datetime.now(timezone.utc), in hours
    all_game_histories,  \* the result of the aggregation pipeline
    gi,                  \* index of game_group in all_game_histories (1-based)
    i,                   \* index of current_doc in history (1-based; the code's i + 1)
    ei,                  \* index of current_edition in current_doc's editions
    prev_editions,       \* the dict built from previous_doc's editions
    recent_price_drops,  \* the dict of rows, in insertion order
    origin,              \* for each entry of recent_price_drops, the pair that wrote it
    result,              \* the response of get_recent_discounts
    pc,                  \* position in get_recent_discounts
    price_str,           \* parse_price: the argument
    parsed,              \* parse_price: the value returned for price_str
    rendered,            \* the text of str(parsed)
    reparsed,            \* parse_price: the value returned for rendered
    ppc                  \* position in the parse / render / parse sequence

scanVars == <<collection, now, all_game_histories, gi, i, ei, prev_editions,
              recent_price_drops, origin, result, pc>>
parseVars == <<price_str, parsed, rendered, reparsed, ppc>>
vars == <<collection, now, all_game_histories, gi, i, ei, prev_editions,
          recent_price_drops, origin, result, pc,
          price_str, parsed, rendered, reparsed, ppc>>

(***************************************************************************)
(* Bounds of the model.                                                    *)
(***************************************************************************)
\* longest price text handed to parse_price in ParseSpec
MaxLen == 4
\* most documents in price_history_collection
MaxDocs == 4

LOOKBACK_DAYS == 7

(***************************************************************************)
(* Values.                                                                 *)
(***************************************************************************)
\* what a field of a document can hold
Absent == [kind |-> "absent", s |-> <<>>]
NonText == [kind |-> "number", s |-> <<>>]
Text(s) == [kind |-> "str", s |-> s]

\* what parse_price can produce
None == [kind |-> "None", m |-> 0, k |-> 0]
NaN == [kind |-> "nan", m |-> 0, k |-> 0]
ValueError == [kind |-> "ValueError", m |-> 0, k |-> 0]
AttributeError == [kind |-> "AttributeError", m |-> 0, k |-> 0]

RECURSIVE Pow10(_)
Pow10(k) == IF k = 0 THEN 1 ELSE 10 * Pow10(k - 1)

\* the decimal m / 10^k with no trailing zero in its fraction
RECURSIVE Num(_, _)
Num(m, k) ==
    IF k > 0 /\ m % 10 = 0 THEN Num(m \div 10, k - 1)
    ELSE [kind |-> "num", m |-> m, k |-> k]

IsNum(v) == v.kind = "num"

\* the float comparison a < b (false when either is nan)
FloatLess(a, b) ==
    /\ IsNum(a)
    /\ IsNum(b)
    /\ a.m * Pow10(b.k) < b.m * Pow10(a.k)

\* the float comparison a == b (false when either is nan)
FloatEq(a, b) ==
    /\ IsNum(a)
    /\ IsNum(b)
    /\ a.m * Pow10(b.k) = b.m * Pow10(a.k)

\* the float subtraction a - b
FloatSub(a, b) ==
    IF IsNum(a) /\ IsNum(b)
    THEN LET k == IF a.k > b.k THEN a.k ELSE b.k
         IN  Num(a.m * Pow10(k - a.k) - b.m * Pow10(k - b.k), k)
    ELSE NaN

(***************************************************************************)
(* parse_price.                                                            *)
(***************************************************************************)
Digits == <<"0", "1", "2", "3", "4", "5", "6", "7", "8", "9">>
IsDigit(c) == \E d \in 1..10 : Digits[d] = c
DigitVal(c) == (CHOOSE d \in 1..10 : Digits[d] = c) - 1

RECURSIVE NatOf(_)
NatOf(s) ==
    IF s = <<>> THEN 0
    ELSE 10 * NatOf(SubSeq(s, 1, Len(s) - 1)) + DigitVal(s[Len(s)])

\* str.strip(): leading and trailing whitespace removed
RECURSIVE Strip(_)
Strip(s) ==
    IF s = <<>> THEN s
    ELSE IF Head(s) = " " THEN Strip(Tail(s))
    ELSE IF s[Len(s)] = " " THEN Strip(SubSeq(s, 1, Len(s) - 1))
    ELSE s

\* str.lower() on the capitals that occur in the model's texts
LowerChar(c) ==
    CASE c = "Ü" -> "ü"
      [] c = "N" -> "n"
      [] c = "A" -> "a"
      [] OTHER -> c
Lower(s) == [n \in 1..Len(s) |-> LowerChar(s[n])]

\* tag in s
Contains(s, tag) ==
    \E n \in 1..(Len(s) - Len(tag) + 1) : SubSeq(s, n, n + Len(tag) - 1) = tag

Tags ==
    { <<"ü", "c", "r", "e", "t", "s", "i", "z">>,
      <<"d", "a", "h", "i", "l">>,
      <<"o", "y", "n", "a">>,
      <<"i", "n", "d", "i", "r">>,
      <<"n", "/", "a">> }

\* price_str.replace('.', '').replace(',', '.')
Clean(s) ==
    LET noDots == SelectSeq(s, LAMBDA c : c # ".")
    IN  [n \in 1..Len(noDots) |-> IF noDots[n] = "," THEN "." ELSE noDots[n]]

\* float(s) for a text of digits, '.', blanks and lower-case letters: the
\* word nan, or digits with at most one '.' and at least one digit
Float(s) ==
    LET t == Strip(s)
        dots == {n \in 1..Len(t) : t[n] = "."}
        dot == IF dots = {} THEN Len(t) + 1 ELSE CHOOSE n \in dots : TRUE
        ip == SubSeq(t, 1, dot - 1)
        fp == SubSeq(t, dot + 1, Len(t))
    IN  IF t = <<"n", "a", "n">> THEN NaN
        ELSE IF /\ Cardinality(dots) <= 1
                /\ Len(ip) + Len(fp) >= 1
                /\ \A n \in 1..Len(ip) : IsDigit(ip[n])
                /\ \A n \in 1..Len(fp) : IsDigit(fp[n])
        THEN Num(NatOf(ip \o fp), Len(fp))
        ELSE ValueError

\* a stand-in for parse_price that reads '.' as the decimal point
FloatDirect(p) ==
    IF p.kind = "absent" THEN None
    ELSE IF p.kind # "str" THEN AttributeError
    ELSE LET s == Lower(Strip(p.s))
             v == Float(s)
         IN  IF \E tag \in Tags : Contains(s, tag) THEN Num(0, 0)
             ELSE IF v = ValueError THEN None ELSE v

\* a stand-in for parse_price that reads an unparsable text as 0
ZeroForUnparsable(p) ==
    IF p.kind = "absent" THEN Num(0, 0)
    ELSE IF p.kind # "str" THEN AttributeError
    ELSE LET s == Lower(Strip(p.s))
             v == Float(Clean(s))
         IN  IF \E tag \in Tags : Contains(s, tag) THEN Num(0, 0)
             ELSE IF v = ValueError THEN Num(0, 0) ELSE v

\* parse_price(p) for the value p of a price field; a value that is no text
\* has no strip() and the AttributeError leaves parse_price
parse_price(p) ==
    IF p.kind = "absent" THEN None
    ELSE IF p.kind # "str" THEN AttributeError
    ELSE LET s == Lower(Strip(p.s))
             v == Float(Clean(s))
         IN  IF \E tag \in Tags : Contains(s, tag) THEN Num(0, 0)
             ELSE IF v = ValueError THEN None ELSE v

(***************************************************************************)
(* str(x) of a float x: the canonical rendering, '.' as decimal point.     *)
(***************************************************************************)
RECURSIVE DigitsOf(_)
DigitsOf(n) ==
    IF n < 10 THEN <<Digits[n + 1]>>
    ELSE DigitsOf(n \div 10) \o <<Digits[(n % 10) + 1]>>

\* the k digits of f, zero-padded on the left
RECURSIVE Padded(_, _)
Padded(f, k) ==
    IF k = 0 THEN <<>>
    ELSE Padded(f \div 10, k - 1) \o <<Digits[(f % 10) + 1]>>

FloatStr(v) ==
    IF v.kind = "nan" THEN <<"n", "a", "n">>
    ELSE DigitsOf(v.m \div Pow10(v.k)) \o <<".">> \o
         (IF v.k = 0 THEN <<"0">> ELSE Padded(v.m % Pow10(v.k), v.k))

(***************************************************************************)
(* Documents of price_history_collection.                                  *)
(***************************************************************************)
\* a snapshotDate: an ISO text for the hour t, a text that is no ISO date
\* (it sorts after every ISO date, as a text starting with a letter does),
\* or no field at all
IsoDate(t) == [kind |-> "iso", t |-> t]
UnreadableDate == [kind |-> "text", t |-> 0]
NoDate == [kind |-> "absent", t |-> 0]

Edition(name, price) == [hasName |-> TRUE, name |-> name, price |-> price]
NamelessEdition(price) == [hasName |-> FALSE, name |-> "", price |-> price]

EditionList(eds) == [kind |-> "list", list |-> eds]
NoEditions == [kind |-> "absent", list |-> <<>>]

Doc(gameId, date, editions) ==
    [gameId |-> gameId, snapshotDate |-> date, editions |-> editions]

\* doc.get('editions', [])
GetEditions(doc) == doc.editions.list

(***************************************************************************)
(* The aggregation pipeline (lines 103-115).                               *)
(***************************************************************************)
\* the order of the $sort stage on snapshotDate, a comparison of texts
DateLeq(a, b) ==
    \/ b.kind = "text"
    \/ a.kind = "iso" /\ b.kind = "iso" /\ a.t <= b.t

\* {'$match': {'snapshotDate': {'$gte': reference_start_date.isoformat()}}}
Matched(docs, clock) ==
    { d \in docs :
        \/ d.snapshotDate.kind = "text"
        \/ /\ d.snapshotDate.kind = "iso"
           /\ d.snapshotDate.t >= clock - (LOOKBACK_DAYS + 1) * 24 }

\* every sequence of the documents of S that $sort ASCENDING can produce:
\* documents with equal snapshotDate come in any order
RECURSIVE SortedSeqs(_)
SortedSeqs(S) ==
    IF S = {} THEN {<<>>}
    ELSE LET least == { d \in S : \A o \in S : DateLeq(d.snapshotDate, o.snapshotDate) }
         IN  UNION { { <<d>> \o rest : rest \in SortedSeqs(S \ {d}) } : d \in least }

\* every order in which $group can emit the groups
RECURSIVE Perms(_)
Perms(S) ==
    IF S = {} THEN {<<>>}
    ELSE UNION { { <<x>> \o rest : rest \in Perms(S \ {x}) } : x \in S }

(***************************************************************************)
(* The scan (lines 127-165) and the sort (line 168).                       *)
(***************************************************************************)
\* timedelta.days of a difference of delta hours
Days(delta) == delta \div 24

\* {e['name']: e for e in previous_doc.get('editions', [])}: the last edition
\* of a name wins
PrevEditions(doc) ==
    LET eds == GetEditions(doc)
        names == { eds[n].name : n \in 1..Len(eds) }
    IN  [ nm \in names |->
            eds[CHOOSE n \in 1..Len(eds) :
                    /\ eds[n].name = nm
                    /\ \A o \in 1..Len(eds) : eds[o].name = nm => o <= n] ]

\* drop_key = f"{game_id}-{current_edition['name']}"
drop_key(gid, name) == gid \o "-" \o name

\* a stand-in for the row with the two prices exchanged
RowSwapped(gid, name, prev_price, current_price) ==
    [ gameId |-> gid,
      editionName |-> name,
      previousPrice |-> current_price,
      currentPrice |-> prev_price,
      priceDrop |-> FloatSub(current_price, prev_price) ]

\* the row of lines 157-165 (name and coverUrl, copied from the games
\* collection, are left out)
Row(gid, name, prev_price, current_price) ==
    [ gameId |-> gid,
      editionName |-> name,
      previousPrice |-> prev_price,
      currentPrice |-> current_price,
      priceDrop |-> FloatSub(prev_price, current_price) ]

\* d[key] = row on a dict kept as the sequence of its items: a key already
\* present keeps its place
Position(d, key) ==
    IF \E n \in 1..Len(d) : d[n].key = key
    THEN CHOOSE n \in 1..Len(d) : d[n].key = key
    ELSE Len(d) + 1

SetItem(d, key, val) ==
    LET n == Position(d, key)
    IN  IF n <= Len(d) THEN [d EXCEPT ![n] = [key |-> key, val |-> val]]
        ELSE Append(d, [key |-> key, val |-> val])

\* sorted(rows, key=lambda x: x['priceDrop'], reverse=True): a stable sort,
\* rows of equal priceDrop keep their order
RECURSIVE InsertDesc(_, _)
InsertDesc(sorted, r) ==
    IF sorted = <<>> THEN <<r>>
    ELSE IF FloatLess(Head(sorted).priceDrop, r.priceDrop)
    THEN <<r>> \o sorted
    ELSE <<Head(sorted)>> \o InsertDesc(Tail(sorted), r)

RECURSIVE SortedDesc(_)
SortedDesc(rows) ==
    IF rows = <<>> THEN <<>>
    ELSE InsertDesc(SortedDesc(SubSeq(rows, 1, Len(rows) - 1)), rows[Len(rows)])

Values(d) == [n \in 1..Len(d) |-> d[n].val]

Ok(rows) == [kind |-> "ok", rows |-> rows]
Error500 == [kind |-> "error", rows |-> <<>>]
NoResult == [kind |-> "none", rows |-> <<>>]

(***************************************************************************)
(* The inputs: the documents the collection is drawn from.                 *)
(***************************************************************************)
HighPrice == Text(<<"1", ".", "2", "9", "9", ",", "5", "0">>)
LowPrice == Text(<<"3", "9", ",", "9", "9">>)
FreePrice == Text(<<"Ü", "c", "r", "e", "t", "s", "i", "z">>)
JunkPrice == Text(<<"x">>)

\* the hour of the request
RequestHour == 100 * 24

\* the snapshotDate of a snapshot taken age hours before the request
Aged(age) == IsoDate(RequestHour - age)

DocChoices ==
    { Doc("a", Aged(200), EditionList(<<Edition("c", HighPrice)>>)),
      Doc("a", Aged(192), EditionList(<<Edition("c", HighPrice)>>)),
      Doc("a", Aged(191), EditionList(<<Edition("c", HighPrice)>>)),
      Doc("a", Aged(191), EditionList(<<Edition("c", LowPrice)>>)),
      Doc("a", Aged(48), EditionList(<<Edition("c", HighPrice)>>)),
      Doc("a", Aged(48), EditionList(<<Edition("c", LowPrice)>>)),
      Doc("a", Aged(48), EditionList(<<Edition("b-c", HighPrice)>>)),
      Doc("a", Aged(48), EditionList(<<NamelessEdition(LowPrice)>>)),
      Doc("a", Aged(48), EditionList(<<Edition("c", NonText)>>)),
      Doc("a", Aged(24), EditionList(<<Edition("c", HighPrice)>>)),
      Doc("a", Aged(24), EditionList(<<Edition("c", LowPrice)>>)),
      Doc("a", Aged(24), EditionList(<<Edition("c", FreePrice)>>)),
      Doc("a", Aged(24), EditionList(<<Edition("c", JunkPrice)>>)),
      Doc("a", Aged(24), EditionList(<<Edition("c", Absent)>>)),
      Doc("a", Aged(24), EditionList(<<Edition("b-c", LowPrice)>>)),
      Doc("a", Aged(24), EditionList(<<Edition("c", LowPrice), Edition("b-c", LowPrice)>>)),
      Doc("a", Aged(24), NoEditions),
      Doc("a", Aged(0 - 24), EditionList(<<Edition("c", LowPrice)>>)),
      Doc("a", UnreadableDate, EditionList(<<Edition("c", LowPrice)>>)),
      Doc("a", NoDate, EditionList(<<Edition("c", LowPrice)>>)),
      Doc("a-b", Aged(48), EditionList(<<Edition("c", HighPrice)>>)),
      Doc("a-b", Aged(24), EditionList(<<Edition("c", LowPrice)>>)) }

\* the subsets of S of at most n elements
RECURSIVE SubsetsUpTo(_, _)
SubsetsUpTo(S, n) ==
    IF n = 0 THEN {{}}
    ELSE LET smaller == SubsetsUpTo(S, n - 1)
         IN  smaller \cup { T \cup {d} : T \in smaller, d \in S }

(***************************************************************************)
(* get_recent_discounts, one action per step of its loops.                 *)
(***************************************************************************)
game_group == all_game_histories[gi]
game_id == game_group.id
history == game_group.history
previous_doc == history[i - 1]
current_doc == history[i]
current_edition == GetEditions(current_doc)[ei]

\* the except clause (lines 171-172): the rows found so far are dropped and
\* an error response is returned
Fail ==
    /\ result' = Error500
    /\ pc' = "done"
    /\ UNCHANGED <<gi, i, ei, prev_editions, recent_price_drops, origin>>

\* lines 103-124
Fetch ==
    /\ pc = "fetch"
    /\ LET docs == Matched(collection, now)
           ids == { d.gameId : d \in docs }
       IN  \E order \in Perms(ids) :
           \E hist \in [ids -> UNION { SortedSeqs({ d \in docs : d.gameId = g }) : g \in ids }] :
              /\ \A g \in ids : hist[g] \in SortedSeqs({ d \in docs : d.gameId = g })
              /\ all_game_histories' =
                    [n \in 1..Len(order) |-> [id |-> order[n], history |-> hist[order[n]]]]
              /\ IF ids = {}
                 THEN /\ result' = Ok(<<>>)
                      /\ pc' = "done"
                 ELSE /\ result' = result
                      /\ pc' = "game"
    /\ UNCHANGED <<collection, now, gi, i, ei, prev_editions, recent_price_drops, origin>>
    /\ UNCHANGED parseVars

\* lines 127-131: the next game_group, skipped when its history is too short
NextGame ==
    /\ pc = "game"
    /\ gi <= Len(all_game_histories)
    /\ IF Len(history) < 2
       THEN /\ gi' = gi + 1
            /\ UNCHANGED <<i, pc>>
       ELSE /\ i' = 2
            /\ pc' = "pair"
            /\ gi' = gi
    /\ UNCHANGED <<collection, now, all_game_histories, ei, prev_editions,
                   recent_price_drops, origin, result>>
    /\ UNCHANGED parseVars

\* lines 134-143: the next adjacent pair, its date check and prev_editions
NextPair ==
    /\ pc = "pair"
    /\ IF i > Len(history)
       THEN /\ gi' = gi + 1
            /\ pc' = "game"
            /\ UNCHANGED <<i, ei, prev_editions, recent_price_drops, origin, result>>
       ELSE IF current_doc.snapshotDate.kind # "iso"
       THEN Fail
       ELSE IF Days(now - current_doc.snapshotDate.t) > LOOKBACK_DAYS
       THEN /\ i' = i + 1
            /\ UNCHANGED <<gi, ei, prev_editions, recent_price_drops, origin, result, pc>>
       ELSE IF \E n \in 1..Len(GetEditions(previous_doc)) :
                  ~GetEditions(previous_doc)[n].hasName
       THEN Fail
       ELSE /\ prev_editions' = PrevEditions(previous_doc)
            /\ ei' = 1
            /\ pc' = "edition"
            /\ UNCHANGED <<gi, i, recent_price_drops, origin, result>>
    /\ UNCHANGED <<collection, now, all_game_histories>>
    /\ UNCHANGED parseVars

\* lines 145-165: the next edition of current_doc
NextEdition ==
    /\ pc = "edition"
    /\ IF ei > Len(GetEditions(current_doc))
       THEN /\ i' = i + 1
            /\ pc' = "pair"
            /\ UNCHANGED <<gi, ei, prev_editions, recent_price_drops, origin, result>>
       ELSE IF ~current_edition.hasName
       THEN Fail
       ELSE IF current_edition.name \notin DOMAIN prev_editions
       THEN /\ ei' = ei + 1
            /\ UNCHANGED <<gi, i, prev_editions, recent_price_drops, origin, result, pc>>
       ELSE LET prev_edition == prev_editions[current_edition.name]
                prev_price == parse_price(prev_edition.price)
                current_price == parse_price(current_edition.price)
            IN  IF prev_price = AttributeError \/ current_price = AttributeError
                THEN Fail
                ELSE /\ IF /\ prev_price # None
                           /\ current_price # None
                           /\ FloatLess(current_price, prev_price)
                        THEN /\ recent_price_drops' =
                                   SetItem(recent_price_drops,
                                           drop_key(game_id, current_edition.name),
                                           Row(game_id, current_edition.name,
                                               prev_price, current_price))
                             /\ origin' =
                                   SetItem(origin,
                                           drop_key(game_id, current_edition.name),
                                           [g |-> gi, i |-> i])
                        ELSE UNCHANGED <<recent_price_drops, origin>>
                     /\ ei' = ei + 1
                     /\ UNCHANGED <<gi, i, prev_editions, result, pc>>
    /\ UNCHANGED <<collection, now, all_game_histories>>
    /\ UNCHANGED parseVars

\* lines 168-169
Return ==
    /\ pc = "game"
    /\ gi > Len(all_game_histories)
    /\ result' = Ok(SortedDesc(Values(recent_price_drops)))
    /\ pc' = "done"
    /\ UNCHANGED <<collection, now, all_game_histories, gi, i, ei, prev_editions,
                   recent_price_drops, origin>>
    /\ UNCHANGED parseVars

ParseIdle ==
    /\ price_str = Absent
    /\ parsed = None
    /\ rendered = Absent
    /\ reparsed = None
    /\ ppc = "idle"

ScanIdle ==
    /\ collection = {}
    /\ now = RequestHour
    /\ all_game_histories = <<>>
    /\ gi = 1
    /\ i = 1
    /\ ei = 1
    /\ prev_editions = <<>>
    /\ recent_price_drops = <<>>
    /\ origin = <<>>
    /\ result = NoResult
    /\ pc = "idle"

Init ==
    /\ collection \in SubsetsUpTo(DocChoices, MaxDocs)
    /\ now = RequestHour
    /\ all_game_histories = <<>>
    /\ gi = 1
    /\ i = 1
    /\ ei = 1
    /\ prev_editions = <<>>
    /\ recent_price_drops = <<>>
    /\ origin = <<>>
    /\ result = NoResult
    /\ pc = "fetch"
    /\ ParseIdle

Next == Fetch \/ NextGame \/ NextPair \/ NextEdition \/ Return

Spec == Init /\ [][Next]_vars

(***************************************************************************)
(* parse_price on its own: parse a text, render the value, parse again.    *)
(***************************************************************************)
Alphabet == {"0", "1", "5", ".", ",", " ", "n", "a", "/"}

RECURSIVE TextsUpTo(_)
TextsUpTo(n) ==
    IF n = 0 THEN {<<>>}
    ELSE LET shorter == TextsUpTo(n - 1)
         IN  shorter \cup { Append(t, c) : t \in shorter, c \in Alphabet }

Parse ==
    /\ ppc = "parse"
    /\ parsed' = parse_price(price_str)
    /\ ppc' = "render"
    /\ UNCHANGED <<price_str, rendered, reparsed>>
    /\ UNCHANGED scanVars

\* str(parsed): only a float has a rendering to parse again
Render ==
    /\ ppc = "render"
    /\ parsed.kind \in {"num", "nan"}
    /\ rendered' = Text(FloatStr(parsed))
    /\ ppc' = "reparse"
    /\ UNCHANGED <<price_str, parsed, reparsed>>
    /\ UNCHANGED scanVars

Reparse ==
    /\ ppc = "reparse"
    /\ reparsed' = parse_price(rendered)
    /\ ppc' = "done"
    /\ UNCHANGED <<price_str, parsed, rendered>>
    /\ UNCHANGED scanVars

ParseInit ==
    /\ price_str \in {Absent, NonText} \cup { Text(t) : t \in TextsUpTo(MaxLen) }
    /\ parsed = None
    /\ rendered = Absent
    /\ reparsed = None
    /\ ppc = "parse"
    /\ ScanIdle

ParseNext == Parse \/ Render \/ Reparse

ParseSpec == ParseInit /\ [][ParseNext]_vars

(***************************************************************************)
(* Vocabulary of the properties.                                           *)
(***************************************************************************)
Finished == pc = "done" /\ result.kind = "ok"

Groups == 1..Len(all_game_histories)
HistoryOf(g) == all_game_histories[g].history
Pairs(g) == 2..Len(HistoryOf(g))
EditionNames == {"c", "b-c"}

HasEdition(doc, name) ==
    \E n \in 1..Len(GetEditions(doc)) :
        GetEditions(doc)[n].hasName /\ GetEditions(doc)[n].name = name

\* the price field of the edition called name in doc
PriceField(doc, name) ==
    LET eds == GetEditions(doc)
    IN  eds[CHOOSE n \in 1..Len(eds) : eds[n].hasName /\ eds[n].name = name].price

PriceOf(doc, name) == parse_price(PriceField(doc, name))

\* both snapshots of pair n of group g hold the edition, with numeric prices
Comparable(g, n, name) ==
    /\ HasEdition(HistoryOf(g)[n - 1], name)
    /\ HasEdition(HistoryOf(g)[n], name)
    /\ IsNum(PriceOf(HistoryOf(g)[n - 1], name))
    /\ IsNum(PriceOf(HistoryOf(g)[n], name))

\* the price of the edition drops in pair n of group g
IsDrop(g, n, name) ==
    /\ Comparable(g, n, name)
    /\ FloatLess(PriceOf(HistoryOf(g)[n], name), PriceOf(HistoryOf(g)[n - 1], name))

\* the price of the edition stays or rises in pair n of group g
IsNonDecreasing(g, n, name) ==
    /\ Comparable(g, n, name)
    /\ ~FloatLess(PriceOf(HistoryOf(g)[n], name), PriceOf(HistoryOf(g)[n - 1], name))

\* the rows of the report for an item and an edition
RowsFor(gid, name) ==
    { n \in 1..Len(result.rows) :
        result.rows[n].gameId = gid /\ result.rows[n].editionName = name }

\* the snapshot whose lower price wrote entry n of recent_price_drops
DropDoc(n) == HistoryOf(origin[n].val.g)[origin[n].val.i]
DropHour(n) == DropDoc(n).snapshotDate.t

\* the entry of recent_price_drops a row of the report comes from
EntryOf(row) ==
    CHOOSE n \in 1..Len(recent_price_drops) : recent_price_drops[n].val = row

\* the scan compares pair n of group g: the snapshot is not older than the
\* scan's own date check allows
Scanned(g, n) ==
    /\ HistoryOf(g)[n].snapshotDate.kind = "iso"
    /\ Days(now - HistoryOf(g)[n].snapshotDate.t) <= LOOKBACK_DAYS

(***************************************************************************)
(* C1: in the final report there is no row for an item and an edition      *)
(* whose price dropped in one adjacent pair and did not decrease in a      *)
(* later adjacent pair with no drop after it: a discount recorded earlier  *)
(* in the scan never survives a later price increase.                      *)
(***************************************************************************)
C1_NoRowAfterIncrease ==
    Finished =>
        \A g \in Groups : \A name \in EditionNames :
            (\E n \in Pairs(g) : \E j \in Pairs(g) :
                /\ n < j
                /\ IsDrop(g, n, name)
                /\ IsNonDecreasing(g, j, name)
                /\ \A q \in Pairs(g) : q > j => ~IsDrop(g, q, name))
            => RowsFor(all_game_histories[g].id, name) = {}

(***************************************************************************)
(* C2: when the history of an edition ends in a run of one or more         *)
(* consecutive price decreases, the reported row's previousPrice is the    *)
(* price in the snapshot right before the first drop of the run and its    *)
(* currentPrice is the price in the most recent snapshot.                  *)
(***************************************************************************)
C2_PreviousPriceIsOnsetPrice ==
    Finished =>
        \A g \in Groups : \A name \in EditionNames : \A s \in Pairs(g) :
            (/\ \A q \in Pairs(g) : q >= s => IsDrop(g, q, name)
             /\ (s > 2 => ~IsDrop(g, s - 1, name)))
            => \A r \in RowsFor(all_game_histories[g].id, name) :
                  /\ result.rows[r].previousPrice = PriceOf(HistoryOf(g)[s - 1], name)
                  /\ result.rows[r].currentPrice =
                        PriceOf(HistoryOf(g)[Len(HistoryOf(g))], name)

(***************************************************************************)
(* C3: every row of the report comes from a price drop whose snapshot is   *)
(* dated inside the lookback window [now - 7 days, now]: neither older     *)
(* than 7 days nor after now.                                              *)
(***************************************************************************)
C3_DropInsideWindow ==
    Finished =>
        \A n \in 1..Len(recent_price_drops) :
            /\ now - LOOKBACK_DAYS * 24 <= DropHour(n)
            /\ DropHour(n) <= now

(***************************************************************************)
(* C4: for every item and edition for which the scan detects a price drop  *)
(* the report holds exactly one row, the one of the most recent drop;      *)
(* drops of two different (item, edition) pairs never replace one another. *)
(***************************************************************************)
C4_OneRowPerPair ==
    Finished =>
        \A g \in Groups : \A name \in EditionNames :
            LET drops == { n \in Pairs(g) : Scanned(g, n) /\ IsDrop(g, n, name) }
                rows == RowsFor(all_game_histories[g].id, name)
            IN  drops # {} =>
                  /\ Cardinality(rows) = 1
                  /\ \A r \in rows :
                        LET o == origin[EntryOf(result.rows[r])].val
                        IN  /\ o.g = g
                            /\ \A n \in drops : n <= o.i

(***************************************************************************)
(* C5: the report is ordered by priceDrop, largest first; rows of equal    *)
(* priceDrop are ordered by drop date, most recent first, then by item id  *)
(* ascending.                                                              *)
(***************************************************************************)
\* the item ids of the model in ascending order
ItemIdsAscending == <<"a", "a-b">>
IdRank(gid) == CHOOSE n \in 1..Len(ItemIdsAscending) : ItemIdsAscending[n] = gid

C5_OrderedWithTieBreaks ==
    Finished =>
        \A a \in 1..Len(result.rows) : \A b \in 1..Len(result.rows) :
            a < b =>
                LET ra == result.rows[a]
                    rb == result.rows[b]
                    ha == DropHour(EntryOf(ra))
                    hb == DropHour(EntryOf(rb))
                IN  /\ ~FloatLess(ra.priceDrop, rb.priceDrop)
                    /\ FloatEq(ra.priceDrop, rb.priceDrop) =>
                          \/ ha > hb
                          \/ ha = hb /\ IdRank(ra.gameId) <= IdRank(rb.gameId)

(***************************************************************************)
(* C6: the report holds a row for an item and an edition only if the item  *)
(* has at least two snapshots and the edition is present in the item's     *)
(* most recent snapshot.                                                   *)
(***************************************************************************)
C6_EditionInLatestSnapshot ==
    Finished =>
        \A r \in 1..Len(result.rows) :
            \E g \in Groups :
                /\ all_game_histories[g].id = result.rows[r].gameId
                /\ Len(HistoryOf(g)) >= 2
                /\ HasEdition(HistoryOf(g)[Len(HistoryOf(g))], result.rows[r].editionName)

(***************************************************************************)
(* C7: a malformed snapshot record never aborts the scan: whenever a       *)
(* well-formed adjacent pair shows a price drop that the scan compares,    *)
(* the response is a report, not an error, and it holds a row under that   *)
(* pair's key.                                                             *)
(***************************************************************************)
C7_MalformedRecordSkipped ==
    pc = "done" =>
        \A g \in Groups : \A name \in EditionNames : \A n \in Pairs(g) :
            (Scanned(g, n) /\ IsDrop(g, n, name)) =>
                /\ result.kind = "ok"
                /\ \E r \in 1..Len(result.rows) :
                      drop_key(result.rows[r].gameId, result.rows[r].editionName)
                          = drop_key(all_game_histories[g].id, name)

LocaleStr(v) == [n \in 1..Len(FloatStr(v)) |->
                    IF FloatStr(v)[n] = "." THEN "," ELSE FloatStr(v)[n]]

UnparsableField(p) == p \in {Absent, JunkPrice}

\* the scan is at an edition present in both snapshots of the pair, one of
\* whose two prices is unparsable and the other a text or missing
AtUnparsablePair(g, n, e) ==
    LET cur == GetEditions(HistoryOf(g)[n])[e]
        prev == PrevEditions(HistoryOf(g)[n - 1])[cur.name]
    IN  /\ cur.hasName
        /\ cur.name \in DOMAIN PrevEditions(HistoryOf(g)[n - 1])
        /\ UnparsableField(prev.price) \/ UnparsableField(cur.price)
        /\ prev.price # NonText
        /\ cur.price # NonText

C9_UnparsablePairNoStateChange ==
    [][ ( /\ pc = "edition"
          /\ ei <= Len(GetEditions(current_doc))
          /\ AtUnparsablePair(gi, i, ei) )
        => recent_price_drops' = recent_price_drops ]_vars

\* the scan has just passed an unparsable pair of an edition that has a row
\* recorded by an earlier pair
C9_Witness ==
    /\ pc = "edition"
    /\ ei >= 2
    /\ AtUnparsablePair(gi, i, ei - 1)
    /\ parse_price(GetEditions(current_doc)[ei - 1].price) = None
    /\ \E n \in 1..Len(recent_price_drops) :
          /\ recent_price_drops[n].key =
                drop_key(game_id, GetEditions(current_doc)[ei - 1].name)
          /\ origin[n].val.i < i

(***************************************************************************)
(* C10: at every point of the scan and in the report, every row has two    *)
(* numeric prices with currentPrice < previousPrice, and                   *)
(* priceDrop = previousPrice - currentPrice > 0; the two prices are the    *)
(* parsed prices of the row's edition in two adjacent snapshots of the     *)
(* row's item.                                                             *)
(***************************************************************************)
RowFromAdjacentPair(row) ==
    \E g \in Groups : \E n \in Pairs(g) :
        /\ all_game_histories[g].id = row.gameId
        /\ HasEdition(HistoryOf(g)[n - 1], row.editionName)
        /\ HasEdition(HistoryOf(g)[n], row.editionName)
        /\ PriceOf(HistoryOf(g)[n - 1], row.editionName) = row.previousPrice
        /\ PriceOf(HistoryOf(g)[n], row.editionName) = row.currentPrice

RowIsDrop(row) ==
    /\ IsNum(row.previousPrice)
    /\ IsNum(row.currentPrice)
    /\ FloatLess(row.currentPrice, row.previousPrice)
    /\ row.priceDrop = FloatSub(row.previousPrice, row.currentPrice)
    /\ FloatLess(Num(0, 0), row.priceDrop)
    /\ RowFromAdjacentPair(row)

C10_EveryRowIsADrop ==
    /\ \A n \in 1..Len(recent_price_drops) : RowIsDrop(recent_price_drops[n].val)
    /\ \A r \in 1..Len(result.rows) : RowIsDrop(result.rows[r])

\* the report holds a row whose current price is a zero-cost token
C10_Witness ==
    /\ Finished
    /\ \E r \in 1..Len(result.rows) :
          /\ result.rows[r].currentPrice = Num(0, 0)
          /\ FloatLess(Num(0, 0), result.rows[r].priceDrop)

====
